---- MODULE Spec2Model ----
(***************************************************************************)
(* RPC reply tracking of derecho (derecho/rpc_utils.h): one outgoing call, *)
(* its PendingResults<T> (write side) and the QueryResults<T> obtained     *)
(* from it (read side).  std::promise / std::future are modelled by their  *)
(* shared state: a promise is a record [retrieved, val, exc] whose val and *)
(* exc are sets of at most one element.                                    *)
(* The QueryResults stays where get_future() put it: its move constructor  *)
(* (lines 137-139), which leaves ReplyMap::parent naming the moved-from    *)
(* object, is not exercised.                                               *)
(***************************************************************************)
EXTENDS Integers, Sequences, FiniteSets, TLC

\* ---- bounds ----
NumPeers == 2
NumValues == 2
MaxLen == 2
MaxFulfill == 2
SizeBits == 2       \* width of size_t in the memory-region model
RegionSize == 2     \* the size argument the regions are constructed with
NumKeys == 2        \* keys a registration may be given
MaxConns == 2       \* connections a manager creates for one peer
MaxWrite == 1       \* largest size passed to write_remote
NumFieldValues == 2 \* values tried for each header field, besides all ones
MaxByte == 1        \* largest byte an application writes into a message body
MaxBody == 2        \* largest body size passed to extra_alloc
NumNodes == 2       \* num_nodes of missed_counters
MaxCounter == 1     \* largest counter value a table holds
MaxMsgs == 2        \* largest num_msgs of missed_counters
MaxBeats == 1       \* passes of check_failures_loop that are followed

Peers == 1..NumPeers
Values == 1..NumValues

RECURSIVE SeqsUpTo(_)
SeqsUpTo(n) == IF n = 0 THEN {<<>>}
               ELSE SeqsUpTo(n - 1) \cup [1..n -> Peers]
NodeLists == SeqsUpTo(MaxLen)

VARIABLES
    ndebug,              \* the build: TRUE when assert() is compiled out
    alive,               \* FALSE once the process has aborted
    pending_map,         \* std::promise<unique_ptr<reply_map<T>>>
    populated_promises,  \* std::map<node_id_t, std::promise<T>>
    map_fulfilled,
    dest_nodes,
    responded_nodes,
    qr_made,             \* a QueryResults has been obtained by get_future()
    pending_rmap,        \* QueryResults::pending_rmap.valid()
    rmap,                \* QueryResults::replies.rmap : node -> future.valid()
    have_replies,        \* the caller holds the ReplyMap* a wait() returned
    get_pc,              \* position of the thread inside QueryResults::get()
    removal_pc,          \* node whose removal passed the test of line 221 (0: none)
    last_op,             \* the call that made the last step, and its outcome
    who_given,           \* history: the list passed to the first fulfill_map
    fulfill_calls,       \* history: number of calls of fulfill_map
    published,           \* history: number of maps stored into pending_map
    handed,              \* history: per node, futures taken from its promise
    stored,              \* history: per node, the outcomes stored into its promise
    consumed             \* history: nodes whose future ReplyMap::get has consumed

\* the memory regions of two connected processes (memory_region.cpp)
VARIABLES
    host,                \* per process: its byte order
    mgr,                 \* per process: RDMAConnectionManager's connection to the peer
    region,              \* per process: its MemoryRegion bound to the peer
    wire,                \* per process: exchange records sent to it, not yet received
    mr_alive,            \* per process: FALSE once it has crashed
    mr_op                \* the MemoryRegion call that made the last step, its outcome

mr_vars == <<host, mgr, region, wire, mr_alive, mr_op>>

\* one RPC message buffer and its header (remote_invocation_utilities)
VARIABLES
    abi,                 \* the build: sizeof(size_t) and the byte order
    heap,                \* the allocation made by extra_alloc, byte by byte
    header_args,         \* history: the arguments of the last populate_header
    hdr_op               \* the call that made the last step, and its outcome

hdr_vars == <<abi, heap, header_args, hdr_op>>

\* the processes of missed_counters and their shared state table
VARIABLES
    main_pc,             \* per process: where its main() stands
    table,               \* per process: its copy of the table, row by row
    chan,                \* per origin and destination: remote writes and sync
                         \* messages issued and not yet delivered, in issue order
    sync_seen,           \* per process and peer: sync messages of the peer delivered
    printed,             \* per process: the counters it read at lines 202-205
    row_put              \* history: per process, the row its put() sent

sst_vars == <<main_pc, table, chan, sync_seen, printed, row_put>>

\* the sender and receiver threads of every process of missed_counters
VARIABLES
    num_msgs,            \* argv[2]
    sender_pc,           \* per process: where its sender thread stands
    send_i,              \* per process: i of the sender's for loop
    receiver_pc,         \* per process: where its receiver thread stands
    for_i,               \* per process: i of the receiver's for loop
    last_received,       \* per process and row: the receiver's last_received
    recv_j,              \* per process and row: the receiver's j
    received_msgs,       \* per process and row: the vector of received values
    failures_pc,         \* per process: where its check_failures thread stands
    beats                \* per process: passes of check_failures_loop so far

fail_vars == <<failures_pc, beats>>
thr_vars == <<num_msgs, sender_pc, send_i, receiver_pc, for_i, last_received,
              recv_j, received_msgs, fail_vars>>

\* print_partial_sums(num_nodes, num_msgs, my_rank, received_msgs)
VARIABLES
    my_rank,             \* the process that runs print_partial_sums
    sums_pc,             \* where print_partial_sums stands
    sums_i,              \* the row it works on: 0 for the local part (lines
                         \* 57-82), else i of the loop of line 93
    logic_size,
    start_index,
    sums_j,              \* j of the loops of lines 77 and 129
    count_missed,
    num_intervals_with_missed,
    sums_access          \* the indices used on received_msgs by the last step

sums_vars == <<my_rank, sums_pc, sums_i, logic_size, start_index, sums_j,
               count_missed, num_intervals_with_missed, sums_access>>
ext_vars == <<mr_vars, hdr_vars, sst_vars, thr_vars, sums_vars>>

rpc_vars == <<ndebug, alive, pending_map, populated_promises, map_fulfilled,
              dest_nodes, responded_nodes, qr_made, pending_rmap, rmap,
              have_replies, get_pc, removal_pc, last_op, who_given,
              fulfill_calls, published, handed, stored, consumed>>
vars == <<rpc_vars, ext_vars>>
not_mr_vars == <<rpc_vars, hdr_vars, sst_vars, thr_vars, sums_vars>>
not_hdr_vars == <<rpc_vars, mr_vars, sst_vars, thr_vars, sums_vars>>
not_sst_vars == <<rpc_vars, mr_vars, hdr_vars, thr_vars, sums_vars>>
not_mc_vars == <<rpc_vars, mr_vars, hdr_vars, sums_vars>>
not_sums_vars == <<rpc_vars, mr_vars, hdr_vars, sst_vars, num_msgs, sender_pc,
                   send_i, receiver_pc, for_i, last_received, recv_j, fail_vars>>

pending_vars == <<pending_map, populated_promises, map_fulfilled,
                  dest_nodes, responded_nodes>>
query_vars == <<qr_made, pending_rmap, rmap, have_replies>>
hist_vars == <<who_given, fulfill_calls, published, handed, stored, consumed>>

\* ---- exceptions ----
remote_exception_occurred(who) == [type |-> "remote_exception_occurred", who |-> who]
node_removed_from_group_exception(who) ==
    [type |-> "node_removed_from_group_exception", who |-> who]
RemoteExceptions == {remote_exception_occurred(w) : w \in Peers}

\* ---- std::promise: the shared state ----
NewPromise == [retrieved |-> FALSE, val |-> {}, exc |-> {}]
promise_satisfied(pr) == pr.val # {} \/ pr.exc # {}
\* promise::set_value stores only into an unsatisfied shared state
promise_set_value(pr, v) ==
    IF promise_satisfied(pr) THEN pr ELSE [pr EXCEPT !.val = {v}]
promise_set_exception(pr, e) ==
    IF promise_satisfied(pr) THEN pr ELSE [pr EXCEPT !.exc = {e}]
\* promise::get_future hands out the one future of the shared state
promise_get_future(pr) == [pr EXCEPT !.retrieved = TRUE]

\* std::map::operator[] : default-constructs the entry when absent
Index(m, k) == IF k \in DOMAIN m THEN m[k] ELSE NewPromise
Put(m, k, x) == [q \in DOMAIN m \cup {k} |-> IF q = k THEN x ELSE m[q]]

Range(s) == {s[i] : i \in DOMAIN s}

\* the record kept of a call: its name, the node it names, how it ended
\* ("ok", "thrown": a stored exception rethrown, "future_error",
\* "out_of_range", "abort", "replies", "nullptr"), the value or exception it
\* returned, a boolean result (flag; for wait: a map had been returned before)
\* and whether the call was the first to store into / read the slot of nid
Op(op, nid, status) ==
    [op |-> op, nid |-> nid, status |-> status, val |-> {}, exc |-> {},
     flag |-> FALSE, first |-> FALSE]

InitRpc ==
    /\ ndebug \in BOOLEAN
    /\ alive = TRUE
    /\ pending_map = [retrieved |-> FALSE, val |-> {}]
    /\ populated_promises = <<>>
    /\ map_fulfilled = FALSE
    /\ dest_nodes = {}
    /\ responded_nodes = {}
    /\ qr_made = FALSE
    /\ pending_rmap = FALSE
    /\ rmap = <<>>
    /\ have_replies = FALSE
    /\ get_pc = "idle"
    /\ removal_pc = 0
    /\ last_op = Op("init", 0, "ok")
    /\ who_given = <<>>
    /\ fulfill_calls = 0
    /\ published = 0
    /\ handed = [p \in Peers |-> 0]
    /\ stored = [p \in Peers |-> <<>>]
    /\ consumed = {}

\* ---- memory regions: the data ----
Ends == {1, 2}                       \* two processes, each the other's peer
Other(p) == 3 - p

\* size_t, and its addition
SizeT == 0..(2^SizeBits - 1)
size_t_add(a, b) == (a + b) % (2^SizeBits)

\* a 64-bit word: its eight bytes, most significant first
U64(n) == <<0, 0, 0, 0, 0, 0, (n \div 256) % 256, n % 256>>
Reverse(w) == [i \in 1..Len(w) |-> w[Len(w) + 1 - i]]
\* pointer + offset, modulo 2^64: the carry c is added at byte i
RECURSIVE AddAt(_, _, _)
AddAt(w, i, c) ==
    IF i = 0 \/ c = 0 THEN w
    ELSE AddAt([w EXCEPT ![i] = (w[i] + c) % 256], i - 1, (w[i] + c) \div 256)
PtrAdd(w, n) == AddAt(w, Len(w), n)

\* the buffers a process passes to its constructor, and the keys and failures
\* a registration can answer with
SendBufOf(p) == U64(1024 * p + 254)
RecvBufOf(p) == U64(1024 * p + 510)
Keys == {U64(k) : k \in 0..(NumKeys - 1)}
FI_KEY_NOTAVAIL == <<255, 255, 255, 255, 255, 255, 255, 255>>   \* (uint64_t)-1

NoRegion == [state |-> "none"]
NoConnection == [gen |-> 0, held |-> FALSE, is_broken |-> FALSE]
\* the record kept of a MemoryRegion call: its name, the process, how it ended,
\* the transport operations it performed, its arguments and the write it issued
MrOp(op, p, status, did) ==
    [op |-> op, at |-> p, status |-> status, did |-> did,
     offset |-> 0, size |-> 0, write |-> {}]

IdleRegions ==
    /\ host = [p \in Ends |-> [little_endian |-> TRUE]]
    /\ mgr = [p \in Ends |-> NoConnection]
    /\ region = [p \in Ends |-> NoRegion]
    /\ wire = [p \in Ends |-> <<>>]
    /\ mr_alive = [p \in Ends |-> TRUE]
    /\ mr_op = MrOp("init", 0, "ok", {})

\* ---- message headers: the data ----
\* sizeof, for the build abi
sizeof_size_t == abi.size_t_bytes
sizeof_Opcode == 8                   \* struct Opcode { unsigned long long id; }
sizeof_node_id_t == 4                \* uint32_t

\* a value of w bytes, most significant first: distinct bytes, or all ones
Ramp(w, k) == [i \in 1..w |-> (16 * k + i) % 256]
FieldValues(w) == {Ramp(w, k) : k \in 1..NumFieldValues} \cup {[i \in 1..w |-> 255]}
BodyBytes == 0..MaxByte

NoHeap == [state |-> "none", bytes |-> <<>>, body |-> 0, n |-> 0]
NoArgs == <<>>
HdrOp(op, status) == [op |-> op, status |-> status, result |-> <<>>]

IdleHeaders ==
    /\ abi = [size_t_bytes |-> 8, little_endian |-> TRUE]
    /\ heap = NoHeap
    /\ header_args = NoArgs
    /\ hdr_op = HdrOp("init", "ok")

\* ---- missed_counters: the data ----
Members == 1..NumNodes               \* node ids, which are the ranks too
CounterValues == 0..MaxCounter
\* a row of mySST: SSTField<uint64_t> counter, SSTField<bool> heartbeat
Rows == [counter : CounterValues, heartbeat : BOOLEAN]
NoRow == [counter |-> 0, heartbeat |-> FALSE]

NotStarted ==
    /\ main_pc = [p \in Members |-> "done"]
    /\ table = [p \in Members |-> [q \in Members |-> NoRow]]
    /\ chan = [o \in Members |-> [d \in Members |-> <<>>]]
    /\ sync_seen = [p \in Members |-> [q \in Members |-> 0]]
    /\ printed = [p \in Members |-> <<>>]
    /\ row_put = [p \in Members |-> <<>>]

\* vector<uint64_t>(n, 0), indexed from 0
ZeroVector(n) == [k \in 0..(n - 1) |-> 0]
NoThreads ==
    /\ num_msgs = 1
    /\ sender_pc = [p \in Members |-> "none"]
    /\ send_i = [p \in Members |-> 1]
    /\ receiver_pc = [p \in Members |-> "none"]
    /\ for_i = [p \in Members |-> 1]
    /\ last_received = [p \in Members |-> [i \in Members |-> 0]]
    /\ recv_j = [p \in Members |-> [i \in Members |-> 0]]
    /\ received_msgs = [p \in Members |-> [i \in Members |-> ZeroVector(1)]]
    /\ failures_pc = [p \in Members |-> "none"]
    /\ beats = [p \in Members |-> 0]

NoSums ==
    /\ my_rank = 1
    /\ sums_pc = "none"
    /\ sums_i = 0
    /\ logic_size = 1
    /\ start_index = 0
    /\ sums_j = 0
    /\ count_missed = 0
    /\ num_intervals_with_missed = 0
    /\ sums_access = {}

Init == InitRpc /\ IdleRegions /\ IdleHeaders /\ NotStarted /\ NoThreads /\ NoSums

\* mutant of the loop: the promise of e is replaced by a new one on each pass
RECURSIVE FulfillLoop_fresh(_, _, _, _)
FulfillLoop_fresh(pp, who, i, to_add) ==
    IF i > Len(who) THEN [pp |-> pp, to_add |-> to_add, threw |-> FALSE, handed |-> <<>>]
    ELSE LET e == who[i]
             rest == FulfillLoop_fresh(Put(pp, e, promise_get_future(NewPromise)),
                                       who, i + 1, to_add \cup {e})
         IN [rest EXCEPT !.handed = <<e>> \o @]
\* ---- PendingResults::fulfill_map ----
\* the loop of lines 212-214 from position i on: the promises after it, the
\* keys emplaced into to_add, the nodes whose future was taken, and whether
\* get_future threw
RECURSIVE FulfillLoop(_, _, _, _)
FulfillLoop(pp, who, i, to_add) ==
    IF i > Len(who) THEN [pp |-> pp, to_add |-> to_add, threw |-> FALSE, handed |-> <<>>]
    ELSE LET e == who[i]
             pr == Index(pp, e)
         IN IF pr.retrieved
            THEN [pp |-> Put(pp, e, pr), to_add |-> to_add, threw |-> TRUE,
                  handed |-> <<>>]
            ELSE LET rest == FulfillLoop(Put(pp, e, promise_get_future(pr)),
                                         who, i + 1, to_add \cup {e})
                 IN [rest EXCEPT !.handed = <<e>> \o @]

fulfill_map(who) ==
    /\ alive
    /\ fulfill_calls < MaxFulfill
    /\ LET loop == FulfillLoop(populated_promises, who, 1, {})
           sat == pending_map.val # {}
       IN /\ map_fulfilled' = TRUE
          /\ populated_promises' = loop.pp
          /\ handed' = [p \in Peers |->
                           handed[p] + Cardinality({j \in DOMAIN loop.handed :
                                                      loop.handed[j] = p})]
          /\ IF loop.threw
             THEN /\ UNCHANGED <<dest_nodes, pending_map, published>>
                  /\ last_op' = Op("fulfill_map", 0, "future_error")
             ELSE /\ dest_nodes' = dest_nodes \cup Range(who)
                  /\ IF sat
                     THEN /\ UNCHANGED <<pending_map, published>>
                          /\ last_op' = Op("fulfill_map", 0, "future_error")
                     ELSE /\ pending_map' = [pending_map EXCEPT !.val = {loop.to_add}]
                          /\ published' = published + 1
                          /\ last_op' = Op("fulfill_map", 0, "ok")
    /\ who_given' = IF fulfill_calls = 0 THEN who ELSE who_given
    /\ fulfill_calls' = fulfill_calls + 1
    /\ UNCHANGED <<ext_vars, ndebug, alive, responded_nodes, query_vars, get_pc,
                   removal_pc, stored, consumed>>

\* mutant of set_value: the whole destination set is marked responded
set_value_all(nid, v) ==
    /\ alive
    /\ LET pr == Index(populated_promises, nid)
       IN /\ responded_nodes' = responded_nodes \cup dest_nodes \cup {nid}
          /\ populated_promises' = Put(populated_promises, nid, promise_set_value(pr, v))
          /\ stored' = [stored EXCEPT ![nid] =
                           IF populated_promises'[nid] # pr
                           THEN Append(@, [by |-> "set_value", val |-> {v}, exc |-> {}])
                           ELSE @]
          /\ last_op' = [Op("set_value", nid,
                            IF promise_satisfied(pr) THEN "future_error" ELSE "ok")
                           EXCEPT !.val = {v}, !.first = ~promise_satisfied(pr)]
    /\ UNCHANGED <<ext_vars, ndebug, alive, pending_map, map_fulfilled, dest_nodes,
                   query_vars, get_pc, removal_pc, who_given, fulfill_calls,
                   published, handed, consumed>>
\* ---- PendingResults::set_value / set_exception ----
set_value(nid, v) ==
    /\ alive
    /\ LET pr == Index(populated_promises, nid)
       IN /\ responded_nodes' = responded_nodes \cup {nid}
          /\ populated_promises' = Put(populated_promises, nid, promise_set_value(pr, v))
          /\ stored' = [stored EXCEPT ![nid] =
                           IF populated_promises'[nid] # pr
                           THEN Append(@, [by |-> "set_value", val |-> {v}, exc |-> {}])
                           ELSE @]
          /\ last_op' = [Op("set_value", nid,
                            IF promise_satisfied(pr) THEN "future_error" ELSE "ok")
                           EXCEPT !.val = {v}, !.first = ~promise_satisfied(pr)]
    /\ UNCHANGED <<ext_vars, ndebug, alive, pending_map, map_fulfilled, dest_nodes,
                   query_vars, get_pc, removal_pc, who_given, fulfill_calls,
                   published, handed, consumed>>

\* mutant: the node is not entered into responded_nodes
SetException_unrecorded(nid, e, opname) ==
    LET pr == Index(populated_promises, nid)
    IN /\ responded_nodes' = responded_nodes
       /\ populated_promises' = Put(populated_promises, nid, promise_set_exception(pr, e))
       /\ stored' = [stored EXCEPT ![nid] =
                        IF populated_promises'[nid] # pr
                        THEN Append(@, [by |-> opname, val |-> {}, exc |-> {e}])
                        ELSE @]
       /\ last_op' = [Op(opname, nid,
                         IF promise_satisfied(pr) THEN "future_error" ELSE "ok")
                        EXCEPT !.exc = {e}, !.first = ~promise_satisfied(pr)]
\* the body of set_exception (lines 235-236), shared with the removal path
SetException(nid, e, opname) ==
    LET pr == Index(populated_promises, nid)
    IN /\ responded_nodes' = responded_nodes \cup {nid}
       /\ populated_promises' = Put(populated_promises, nid, promise_set_exception(pr, e))
       /\ stored' = [stored EXCEPT ![nid] =
                        IF populated_promises'[nid] # pr
                        THEN Append(@, [by |-> opname, val |-> {}, exc |-> {e}])
                        ELSE @]
       /\ last_op' = [Op(opname, nid,
                         IF promise_satisfied(pr) THEN "future_error" ELSE "ok")
                        EXCEPT !.exc = {e}, !.first = ~promise_satisfied(pr)]

set_exception(nid, e) ==
    /\ alive
    /\ SetException(nid, e, "set_exception")
    /\ UNCHANGED <<ext_vars, ndebug, alive, pending_map, map_fulfilled, dest_nodes,
                   query_vars, get_pc, removal_pc, who_given, fulfill_calls,
                   published, handed, consumed>>

\* ---- PendingResults::set_exception_for_removed_node ----
\* mutants of the test: inverted on responded_nodes; responded_nodes not consulted
RemovalApplies_inverted(removed_nid) ==
    removed_nid \in dest_nodes /\ removed_nid \in responded_nodes
RemovalApplies_nocheck(removed_nid) == removed_nid \in dest_nodes
\* the test of lines 221-222
RemovalApplies(removed_nid) ==
    removed_nid \in dest_nodes /\ removed_nid \notin responded_nodes

set_exception_for_removed_node(removed_nid) ==
    /\ alive
    /\ removal_pc = 0
    /\ IF ~map_fulfilled /\ ~ndebug
       THEN \* assert(map_fulfilled) fails
            /\ alive' = FALSE
            /\ last_op' = Op("set_exception_for_removed_node", removed_nid, "abort")
            /\ UNCHANGED <<populated_promises, responded_nodes, stored>>
       ELSE /\ UNCHANGED alive
            /\ IF RemovalApplies(removed_nid)
               THEN SetException(removed_nid,
                                 node_removed_from_group_exception(removed_nid),
                                 "set_exception_for_removed_node")
               ELSE /\ last_op' = Op("set_exception_for_removed_node", removed_nid, "ok")
                    /\ UNCHANGED <<populated_promises, responded_nodes, stored>>
    /\ UNCHANGED <<ext_vars, ndebug, pending_map, map_fulfilled, dest_nodes,
                   query_vars, get_pc, removal_pc, who_given, fulfill_calls,
                   published, handed, consumed>>

\* ---- PendingResults::get_future ----
get_future ==
    /\ alive
    /\ IF pending_map.retrieved
       THEN \* promise::get_future: future_already_retrieved
            /\ last_op' = Op("get_future", 0, "future_error")
            /\ UNCHANGED <<pending_map, qr_made, pending_rmap>>
       ELSE /\ pending_map' = [pending_map EXCEPT !.retrieved = TRUE]
            /\ qr_made' = TRUE
            /\ pending_rmap' = TRUE
            /\ last_op' = Op("get_future", 0, "ok")
    /\ UNCHANGED <<ext_vars, ndebug, alive, populated_promises, map_fulfilled, dest_nodes,
                   responded_nodes, rmap, have_replies, get_pc, removal_pc,
                   hist_vars>>

\* ---- QueryResults::wait ----
\* what a build may do on a future without shared state (undefined behaviour):
\* libstdc++ throws future_error(no_state), other builds crash
UBOutcomes == {"future_error", "abort"}

\* the reply_map moved out of the shared state of pending_map: every future valid
MovedMap == LET m == CHOOSE k \in pending_map.val : TRUE
            IN [q \in m |-> TRUE]

\* the body of wait(t), with the outcome u the build takes where it is undefined
WaitBody(opname, u) ==
    IF DOMAIN rmap = {}                                   \* replies.rmap.size() == 0
    THEN IF ~pending_rmap
         THEN \* pending_rmap.wait_for on a consumed future
              /\ alive' = (u # "abort")
              /\ last_op' = [Op(opname, 0, u) EXCEPT !.flag = have_replies]
              /\ UNCHANGED <<rmap, pending_rmap, have_replies>>
         ELSE IF pending_map.val # {}                \* future_status::ready
              THEN /\ rmap' = MovedMap
                   /\ pending_rmap' = FALSE
                   /\ have_replies' = TRUE
                   /\ last_op' = [Op(opname, 0, "replies") EXCEPT !.flag = have_replies]
                   /\ UNCHANGED alive
              ELSE /\ last_op' = [Op(opname, 0, "nullptr") EXCEPT !.flag = have_replies]
                   /\ UNCHANGED <<alive, rmap, pending_rmap, have_replies>>
    ELSE /\ have_replies' = TRUE
         /\ last_op' = [Op(opname, 0, "replies") EXCEPT !.flag = have_replies]
         /\ UNCHANGED <<alive, rmap, pending_rmap>>

wait ==
    /\ alive
    /\ qr_made
    /\ \E u \in UBOutcomes : WaitBody("wait", u)
    /\ UNCHANGED <<ext_vars, ndebug, pending_vars, qr_made, get_pc, removal_pc, hist_vars>>

\* ---- QueryResults::get : while(true) { if(auto rmap = wait(5min)) return } ----
get_call ==
    /\ alive
    /\ qr_made
    /\ get_pc # "polling"
    /\ get_pc' = "polling"
    /\ last_op' = Op("get_call", 0, "ok")
    /\ UNCHANGED <<ext_vars, ndebug, alive, pending_vars, query_vars, removal_pc, hist_vars>>

get_poll ==
    /\ alive
    /\ get_pc = "polling"
    /\ \E u \in UBOutcomes : WaitBody("get", u)
    /\ get_pc' = CASE last_op'.status = "replies" -> "returned"
                   [] last_op'.status = "nullptr" -> "polling"
                   [] OTHER -> "threw"
    /\ UNCHANGED <<ext_vars, ndebug, pending_vars, qr_made, removal_pc, hist_vars>>

\* ---- QueryResults::ReplyMap ----
\* mutant: valid() answers whether the reply of nid has arrived
ReplyMap_valid_ready(nid) ==
    /\ alive
    /\ have_replies
    /\ last_op' = [Op("valid", nid, "ok") EXCEPT
                     !.flag = /\ nid \in DOMAIN rmap
                              /\ promise_satisfied(Index(populated_promises, nid))]
    /\ UNCHANGED <<ext_vars, ndebug, alive, pending_vars, query_vars, get_pc, removal_pc,
                   hist_vars>>
ReplyMap_valid(nid) ==
    /\ alive
    /\ have_replies
    /\ IF ~(DOMAIN rmap = {} \/ nid \in DOMAIN rmap) /\ ~ndebug
       THEN \* assert(rmap.size() == 0 || rmap.count(nid)) fails
            /\ alive' = FALSE
            /\ last_op' = Op("valid", nid, "abort")
       ELSE /\ UNCHANGED alive
            /\ last_op' =
                 IF DOMAIN rmap = {} THEN Op("valid", nid, "ok")
                 ELSE IF nid \notin DOMAIN rmap
                      THEN Op("valid", nid, "out_of_range")    \* rmap.at(nid)
                      ELSE [Op("valid", nid, "ok") EXCEPT !.flag = rmap[nid]]
    /\ UNCHANGED <<ext_vars, ndebug, pending_vars, query_vars, get_pc, removal_pc, hist_vars>>

ReplyMap_contains(nid) ==
    /\ alive
    /\ have_replies
    /\ last_op' = [Op("contains", nid, "ok") EXCEPT !.flag = (nid \in DOMAIN rmap)]
    /\ UNCHANGED <<ext_vars, ndebug, alive, pending_vars, query_vars, get_pc, removal_pc,
                   hist_vars>>

\* mutant: every key of the map is given the future of the first promise
SharedState_first(nid) ==
    populated_promises[CHOOSE q \in DOMAIN populated_promises :
                          \A r \in DOMAIN populated_promises : q <= r]
\* the shared state behind the future stored under key nid (line 213: the
\* future of populated_promises[e] is emplaced under e)
SharedState(nid) == populated_promises[nid]

\* rmap.at(nid).get(): blocks until the promise of nid is satisfied, then
\* consumes the future and returns the value or throws the stored exception
ReplyMap_get(nid) ==
    /\ alive
    /\ have_replies
    /\ LET fetch == DOMAIN rmap = {}                 \* rmap.size() == 0
       IN IF fetch /\ ~pending_rmap
          THEN \* assert(parent.pending_rmap.valid()) fails; without the assert
               \* pending_rmap.get() has no shared state
               /\ \E u \in UBOutcomes :
                    /\ alive' = (ndebug /\ u # "abort")
                    /\ last_op' = [Op("ReplyMap_get", nid,
                                         IF ndebug THEN u ELSE "abort")
                                        EXCEPT !.first = nid \notin consumed]
               /\ UNCHANGED <<rmap, pending_rmap, consumed>>
          ELSE /\ fetch => pending_map.val # {}      \* pending_rmap.get() blocks
               /\ LET rm == IF fetch THEN MovedMap ELSE rmap
                  IN /\ pending_rmap' = (pending_rmap /\ ~fetch)
                     /\ IF nid \notin DOMAIN rm
                        THEN \* assert(rmap.size() > 0), assert(rmap.count(nid));
                             \* rmap.at(nid) throws without them
                             /\ alive' = ndebug
                             /\ last_op' = [Op("ReplyMap_get", nid,
                                                IF ndebug THEN "out_of_range"
                                                ELSE "abort")
                                               EXCEPT !.first = nid \notin consumed]
                             /\ rmap' = rm
                             /\ UNCHANGED consumed
                        ELSE IF ~rm[nid]
                        THEN \* assert(rmap.at(nid).valid()); future::get
                             \* without shared state
                             /\ \E u \in UBOutcomes :
                                  /\ alive' = (ndebug /\ u # "abort")
                                  /\ last_op' = [Op("ReplyMap_get", nid,
                                                     IF ndebug THEN u ELSE "abort")
                                                    EXCEPT !.first = nid \notin consumed]
                             /\ rmap' = rm
                             /\ UNCHANGED consumed
                        ELSE /\ promise_satisfied(SharedState(nid))
                             /\ rmap' = [rm EXCEPT ![nid] = FALSE]
                             /\ consumed' = consumed \cup {nid}
                             /\ last_op' =
                                  [Op("ReplyMap_get", nid,
                                      IF SharedState(nid).exc # {}
                                      THEN "thrown" ELSE "ok")
                                     EXCEPT !.val = SharedState(nid).val,
                                            !.exc = SharedState(nid).exc,
                                            !.first = nid \notin consumed]
                             /\ UNCHANGED alive
    /\ UNCHANGED <<ext_vars, ndebug, pending_vars, qr_made, have_replies, get_pc,
                   removal_pc, who_given, fulfill_calls, published, handed, stored>>

\* ---- set_exception_for_removed_node running beside the reply thread ----
\* lines 220-222: the assertion and the test, then (lines 223-225) the call of
\* set_exception, with other threads' calls in between
removal_check(removed_nid) ==
    /\ alive
    /\ removal_pc = 0
    /\ IF ~map_fulfilled /\ ~ndebug
       THEN /\ alive' = FALSE
            /\ last_op' = Op("set_exception_for_removed_node", removed_nid, "abort")
            /\ UNCHANGED removal_pc
       ELSE /\ UNCHANGED alive
            /\ IF RemovalApplies(removed_nid)
               THEN /\ removal_pc' = removed_nid
                    /\ last_op' = Op("removal_check", removed_nid, "ok")
               ELSE /\ UNCHANGED removal_pc
                    /\ last_op' = Op("set_exception_for_removed_node", removed_nid, "ok")
    /\ UNCHANGED <<ext_vars, ndebug, pending_vars, query_vars, get_pc, hist_vars>>

removal_install ==
    /\ alive
    /\ removal_pc # 0
    /\ SetException(removal_pc, node_removed_from_group_exception(removal_pc),
                    "set_exception_for_removed_node")
    /\ removal_pc' = 0
    /\ UNCHANGED <<ext_vars, ndebug, alive, pending_map, map_fulfilled, dest_nodes,
                   query_vars, get_pc, who_given, fulfill_calls, published, handed,
                   consumed>>

Next ==
    \/ \E who \in NodeLists : fulfill_map(who)
    \/ \E nid \in Peers, v \in Values : set_value(nid, v)
    \/ \E nid \in Peers, e \in RemoteExceptions : set_exception(nid, e)
    \/ \E nid \in Peers : set_exception_for_removed_node(nid)
    \/ get_future
    \/ wait
    \/ get_call
    \/ get_poll
    \/ \E nid \in Peers : ReplyMap_valid(nid)
    \/ \E nid \in Peers : ReplyMap_contains(nid)
    \/ \E nid \in Peers : ReplyMap_get(nid)

Spec == Init /\ [][Next]_vars

\* the same calls, the removal upcall interleaved with the other threads
NextRace ==
    \/ \E who \in NodeLists : fulfill_map(who)
    \/ \E nid \in Peers, v \in Values : set_value(nid, v)
    \/ \E nid \in Peers, e \in RemoteExceptions : set_exception(nid, e)
    \/ \E nid \in Peers : removal_check(nid)
    \/ removal_install
    \/ get_future
    \/ wait
    \/ \E nid \in Peers : ReplyMap_get(nid)

SpecRace == Init /\ [][NextRace]_vars

\* ---- RDMAConnectionManager and RDMAConnection ----
\* The manager and the connection are used by memory_region.cpp, not defined
\* in it.  A manager holds at most one connection to the peer (held), the
\* gen-th it has created; a weak handle names a connection by its number, and
\* handle 0 names none.
\* get(remote_id): the weak handle of the connection the manager holds
RDMAConnectionManager_get(p) == IF mgr[p].held THEN mgr[p].gen ELSE 0

\* the manager creates the connection to the peer
add_connection(p) ==
    /\ ~mgr[p].held
    /\ mgr[p].gen < MaxConns
    /\ mgr' = [mgr EXCEPT ![p] = [gen |-> @.gen + 1, held |-> TRUE, is_broken |-> FALSE]]
    /\ mr_op' = MrOp("add_connection", p, "ok", {})
    /\ UNCHANGED <<not_mr_vars, host, region, wire, mr_alive>>

\* weak_ptr::lock() on a handle: is there a connection to share
lock(m, handle) == handle # 0 /\ m.held /\ m.gen = handle

mark_broken(p) ==
    /\ mgr[p].held
    /\ ~mgr[p].is_broken
    /\ mgr' = [mgr EXCEPT ![p].is_broken = TRUE]
    /\ mr_op' = MrOp("mark_broken", p, "ok", {})
    /\ UNCHANGED <<not_mr_vars, host, region, wire, mr_alive>>

\* the manager drops its strong reference
drop_connection(p) ==
    /\ mgr[p].held
    /\ mgr' = [mgr EXCEPT ![p].held = FALSE]
    /\ mr_op' = MrOp("drop_connection", p, "ok", {})
    /\ UNCHANGED <<not_mr_vars, host, region, wire, mr_alive>>

\* RDMAConnection::write_remote and RDMAConnection::sync on connection c
RDMAConnection_write_remote(c, local_addr, remote_addr, size, with_completion, remote_key, local_key) ==
    IF c.is_broken THEN [status |-> "ConnectionBroken", write |-> {}]
    ELSE [status |-> "ok",
          write |-> {[local_addr |-> local_addr, remote_addr |-> remote_addr,
                      size |-> size, with_completion |-> with_completion,
                      remote_key |-> remote_key, local_key |-> local_key]}]
RDMAConnection_sync(c) ==
    IF c.is_broken THEN [status |-> "ConnectionBroken", did |-> {}]
    ELSE [status |-> "ok", did |-> {"sync"}]

\* ---- byte order, and the exchange record ----
htonll(le, w) == IF le THEN Reverse(w) ELSE w
ntohll(le, w) == IF le THEN Reverse(w) ELSE w
\* the eight bytes of a uint64_t in address order, and the word read from them
MemoryImage(le, w) == IF le THEN Reverse(w) ELSE w
\* mutant: the key of the send buffer's registration is put into the record
LocalData_wkey(p, r) ==
    [mr_key |-> htonll(host[p].little_endian, r.mr_lwkey),
     vaddr |-> htonll(host[p].little_endian, r.recv_buf)]
\* lines 53-57: MRConnectionData local_data of region r on process p
LocalData(p, r) ==
    [mr_key |-> htonll(host[p].little_endian, r.mr_lrkey),
     vaddr |-> htonll(host[p].little_endian, r.recv_buf)]
\* the 16 bytes tcp_exchange sends for d, and the record it receives from them
WireBytes(p, d) ==
    MemoryImage(host[p].little_endian, d.mr_key)
        \o MemoryImage(host[p].little_endian, d.vaddr)
RemoteData(p, bytes) ==
    [mr_key |-> MemoryImage(host[p].little_endian, SubSeq(bytes, 1, 8)),
     vaddr |-> MemoryImage(host[p].little_endian, SubSeq(bytes, 9, 16))]

\* ---- MemoryRegion ----
\* what fi_mr_key can answer for a registration
KeyOutcomes == Keys \cup {FI_KEY_NOTAVAIL}

\* mutant: the constructor does not look at is_broken
MemoryRegion_upgrade_unchecked(m, handle) ==
    IF ~lock(m, handle) THEN "ConnectionRemoved" ELSE "registers"
\* lines 18-24: the exception the constructor throws on manager state m, or
\* "registers" when it goes on
MemoryRegion_upgrade(m, handle) ==
    IF ~lock(m, handle) THEN "ConnectionRemoved"
    ELSE IF m.is_broken THEN "ConnectionBroken"
    ELSE "registers"

\* the constructor up to the sending half of tcp_exchange (lines 13-59).
\* The member size is not initialized: it holds any value, junk.  registered:
\* both calls of fi_mr_reg succeeded; wkey, rkey: what fi_mr_key answers.
MemoryRegion(p, junk, registered, wkey, rkey) ==
    /\ mr_alive[p]
    /\ region[p].state = "none"
    /\ LET handle == RDMAConnectionManager_get(p)
           r == [state |-> "exchanging",
                 remote_id |-> Other(p),
                 rdma_connection |-> handle,
                 send_buf |-> SendBufOf(p),
                 recv_buf |-> RecvBufOf(p),
                 size |-> junk,
                 write_mr |-> [buf |-> SendBufOf(p), len |-> RegionSize, key |-> wkey],
                 read_mr |-> [buf |-> RecvBufOf(p), len |-> RegionSize, key |-> rkey],
                 mr_lrkey |-> rkey,
                 mr_lwkey |-> wkey]
           thrown == MemoryRegion_upgrade(mgr[p], handle)
       IN /\ IF thrown # "registers"
             THEN /\ mr_op' = MrOp("MemoryRegion", p, thrown, {})
                  /\ UNCHANGED <<region, wire, mr_alive>>
             ELSE IF ~registered \/ rkey = FI_KEY_NOTAVAIL \/ wkey = FI_KEY_NOTAVAIL
             THEN \* CRASH_ON_FAILURE
                  /\ mr_alive' = [mr_alive EXCEPT ![p] = FALSE]
                  /\ mr_op' = MrOp("MemoryRegion", p, "crash", {"fi_mr_reg"})
                  /\ UNCHANGED <<region, wire>>
             ELSE /\ region' = [region EXCEPT ![p] = r]
                  /\ wire' = [wire EXCEPT ![Other(p)] =
                                  Append(@, WireBytes(p, LocalData(p, r)))]
                  /\ mr_op' = MrOp("MemoryRegion", p, "exchanging",
                                   {"fi_mr_reg", "tcp_exchange"})
                  /\ UNCHANGED mr_alive
    /\ UNCHANGED <<not_mr_vars, host, mgr>>

\* the receiving half of tcp_exchange and lines 61-62; a failed exchange crashes
MemoryRegion_exchanged(p, ok) ==
    /\ mr_alive[p]
    /\ region[p].state = "exchanging"
    /\ IF ~ok
       THEN /\ mr_alive' = [mr_alive EXCEPT ![p] = FALSE]
            /\ mr_op' = MrOp("MemoryRegion", p, "crash", {"fi_mr_reg", "tcp_exchange"})
            /\ UNCHANGED <<region, wire>>
       ELSE /\ wire[p] # <<>>
            /\ LET remote_data == RemoteData(p, Head(wire[p]))
               IN region' = [region EXCEPT ![p] =
                    [state |-> "ready"] @@ [mr_rwkey |-> ntohll(host[p].little_endian, remote_data.mr_key),
                     remote_recv_buf |-> ntohll(host[p].little_endian, remote_data.vaddr)] @@ @]
            /\ wire' = [wire EXCEPT ![p] = Tail(@)]
            /\ mr_op' = MrOp("MemoryRegion", p, "ok", {"fi_mr_reg", "tcp_exchange"})
            /\ UNCHANGED mr_alive
    /\ UNCHANGED <<not_mr_vars, host, mgr>>

\* mutants: the shared pointer is not tested; the assertion comes first
write_remote_upgrade_untested(r, m, offset, size) ==
    IF ~ndebug /\ ~(size_t_add(offset, size) <= r.size) THEN "abort"
    ELSE "writes"
write_remote_upgrade_late(r, m, offset, size) ==
    IF ~ndebug /\ ~(size_t_add(offset, size) <= r.size) THEN "abort"
    ELSE IF ~lock(m, r.rdma_connection) THEN "ConnectionRemoved"
    ELSE "writes"
\* lines 67-71: how write_remote on region r ends before the connection is
\* used, or "writes" when it goes on
write_remote_upgrade(r, m, offset, size) ==
    IF ~lock(m, r.rdma_connection) THEN "ConnectionRemoved"
    ELSE IF ~ndebug /\ ~(size_t_add(offset, size) <= r.size)
    THEN "abort"                \* assert(offset + size <= this->size) fails
    ELSE "writes"

\* lines 66-74
write_remote(p, offset, size, with_completion) ==
    /\ mr_alive[p]
    /\ region[p].state = "ready"
    /\ LET r == region[p]
           call == [MrOp("write_remote", p, "ok", {}) EXCEPT
                      !.offset = offset, !.size = size]
           before == write_remote_upgrade(r, mgr[p], offset, size)
       IN IF before # "writes"
          THEN /\ mr_op' = [call EXCEPT !.status = before]
               /\ mr_alive' = [mr_alive EXCEPT ![p] = (before # "abort")]
          ELSE LET w == RDMAConnection_write_remote(
                            mgr[p], PtrAdd(r.send_buf, offset),
                            PtrAdd(r.remote_recv_buf, offset), size,
                            with_completion, r.mr_rwkey, r.mr_lrkey)
               IN /\ mr_op' = [call EXCEPT !.status = w.status,
                                           !.write = w.write,
                                           !.did = IF w.write = {} THEN {} ELSE {"write"}]
                  /\ UNCHANGED mr_alive
    /\ UNCHANGED <<not_mr_vars, host, mgr, region, wire>>

\* lines 76-83
sync(p) ==
    /\ mr_alive[p]
    /\ region[p].state = "ready"
    /\ IF ~lock(mgr[p], region[p].rdma_connection)
       THEN mr_op' = MrOp("sync", p, "ConnectionRemoved", {})
       ELSE LET s == RDMAConnection_sync(mgr[p])
            IN mr_op' = MrOp("sync", p, s.status, s.did)
    /\ UNCHANGED <<not_mr_vars, host, mgr, region, wire, mr_alive>>

\* little-endian hosts, no connection yet
InitRegions ==
    /\ host = [p \in Ends |-> [little_endian |-> TRUE]]
    /\ mgr = [p \in Ends |-> NoConnection]
    /\ region = [p \in Ends |-> NoRegion]
    /\ wire = [p \in Ends |-> <<>>]
    /\ mr_alive = [p \in Ends |-> TRUE]
    /\ mr_op = MrOp("init", 0, "ok", {})

InitMR == InitRpc /\ InitRegions /\ IdleHeaders /\ NotStarted /\ NoThreads /\ NoSums

\* the connection of process 1 is the one that breaks and is dropped
FaultEnds == {1}
WriteSizes == 1..MaxWrite

\* the key fi_mr_reg is asked for (lines 29 and 37), which this provider gives
requested_key == U64(0)

NextMR ==
    \/ \E p \in Ends, junk \in SizeT, registered \in BOOLEAN,
          wkey \in {requested_key, FI_KEY_NOTAVAIL},
          rkey \in {requested_key, FI_KEY_NOTAVAIL} :
          MemoryRegion(p, junk, registered, wkey, rkey)
    \/ \E p \in Ends, ok \in BOOLEAN : MemoryRegion_exchanged(p, ok)
    \/ \E p \in Ends, offset \in SizeT, size \in WriteSizes,
          with_completion \in BOOLEAN :
          write_remote(p, offset, size, with_completion)
    \/ \E p \in Ends : sync(p)
    \/ \E p \in Ends : add_connection(p)
    \/ \E p \in FaultEnds : mark_broken(p)
    \/ \E p \in FaultEnds : drop_connection(p)

SpecMR == InitMR /\ [][NextMR]_vars

\* two processes of either byte order build their regions and write, the
\* provider choosing the keys; no connection fails
InitExchange ==
    /\ InitRpc
    /\ IdleHeaders
    /\ NotStarted
    /\ NoThreads
    /\ NoSums
    /\ host \in [Ends -> [little_endian : BOOLEAN]]
    /\ mgr = [p \in Ends |-> NoConnection]
    /\ region = [p \in Ends |-> NoRegion]
    /\ wire = [p \in Ends |-> <<>>]
    /\ mr_alive = [p \in Ends |-> TRUE]
    /\ mr_op = MrOp("init", 0, "ok", {})

NextExchange ==
    \/ \E p \in Ends : add_connection(p)
    \/ \E p \in Ends, junk \in SizeT, registered \in BOOLEAN,
          wkey \in KeyOutcomes, rkey \in KeyOutcomes :
          MemoryRegion(p, junk, registered, wkey, rkey)
    \/ \E p \in Ends, ok \in BOOLEAN : MemoryRegion_exchanged(p, ok)
    \/ \E p \in Ends, offset \in SizeT, size \in WriteSizes,
          with_completion \in BOOLEAN :
          write_remote(p, offset, size, with_completion)

SpecExchange == InitExchange /\ [][NextExchange]_vars

\* ---- remote_invocation_utilities: the header of an RPC message ----
\* mutant: the sender's id is not counted
header_space_short == sizeof_size_t + sizeof_Opcode
header_space == sizeof_size_t + sizeof_Opcode + sizeof_node_id_t

\* the bytes of a value in address order, and the value of such bytes
Image(w) == IF abi.little_endian THEN Reverse(w) ELSE w
\* memory: the bytes of an allocation, offsets counted from 0
InBounds(bytes, off, len) == 0 <= off /\ off + len <= Len(bytes)
Store(bytes, off, image) ==
    [j \in 1..Len(bytes) |->
        IF off < j /\ j <= off + Len(image) THEN image[j - off] ELSE bytes[j]]
Load(bytes, off, len) == Image(SubSeq(bytes, off + 1, off + len))
\* what a build may do on an access outside the allocation or through a null
\* pointer (undefined behaviour): fault, or run on over whatever is there
MemoryUB == {"crash", "overrun"}

\* where the three fields lie, from reply_buf (lines 272-274, 282-284)
size_offset == 0
op_offset == sizeof_size_t
\* mutant: the sender's id is placed inside the operation code
from_offset_overlapping == sizeof_size_t + sizeof_node_id_t
from_offset == sizeof_size_t + sizeof_Opcode

\* extra_alloc(i): calloc(i + hs, 1) + hs; allocated tells whether calloc
\* found the memory.  i + hs is computed in size_t: a negative sum is a
\* request calloc cannot meet
extra_alloc(i, allocated) ==
    /\ heap.state = "none"
    /\ LET hs == header_space
       IN IF ~allocated \/ i + hs < 0
          THEN /\ heap' = [state |-> "null", bytes |-> <<>>, body |-> hs, n |-> i]
               /\ hdr_op' = HdrOp("extra_alloc", "null")
          ELSE /\ heap' = [state |-> "allocated", bytes |-> [j \in 1..(i + hs) |-> 0],
                           body |-> hs, n |-> i]
               /\ hdr_op' = HdrOp("extra_alloc", "ok")
    /\ UNCHANGED <<not_hdr_vars, abi, header_args>>

\* the application fills byte k of the body
write_body(k, v) ==
    /\ heap.state = "allocated"
    /\ 0 <= k /\ k < heap.n
    /\ heap' = [heap EXCEPT !.bytes = Store(@, heap.body + k, <<v>>)]
    /\ hdr_op' = HdrOp("write_body", "ok")
    /\ UNCHANGED <<not_hdr_vars, abi, header_args>>

\* populate_header(b - header_space(), payload_size, op, from) for the body
\* pointer b of the allocation
populate_header(payload_size, op, from) ==
    /\ heap.state \in {"allocated", "null"}
    /\ LET reply_buf == heap.body - header_space
           inside == /\ heap.state = "allocated"
                     /\ InBounds(heap.bytes, reply_buf + size_offset, sizeof_size_t)
                     /\ InBounds(heap.bytes, reply_buf + op_offset, sizeof_Opcode)
                     /\ InBounds(heap.bytes, reply_buf + from_offset, sizeof_node_id_t)
           written == Store(Store(Store(heap.bytes,
                          reply_buf + size_offset, Image(payload_size)),
                          reply_buf + op_offset, Image(op)),
                          reply_buf + from_offset, Image(from))
       IN IF inside
          THEN /\ heap' = [heap EXCEPT !.bytes = written]
               /\ hdr_op' = HdrOp("populate_header", "ok")
          ELSE \E u \in MemoryUB :
                 /\ heap' = IF u = "crash" THEN [heap EXCEPT !.state = "crashed"]
                            ELSE [heap EXCEPT !.bytes = written]
                 /\ hdr_op' = HdrOp("populate_header", u)
    /\ header_args' = <<payload_size, op, from>>
    /\ UNCHANGED <<not_hdr_vars, abi>>

\* retrieve_header(dsm, b - header_space(), payload_size, op, from)
retrieve_header ==
    /\ heap.state \in {"allocated", "null"}
    /\ LET reply_buf == heap.body - header_space
           inside == /\ heap.state = "allocated"
                     /\ InBounds(heap.bytes, reply_buf + size_offset, sizeof_size_t)
                     /\ InBounds(heap.bytes, reply_buf + op_offset, sizeof_Opcode)
                     /\ InBounds(heap.bytes, reply_buf + from_offset, sizeof_node_id_t)
       IN IF inside
          THEN /\ hdr_op' = [HdrOp("retrieve_header", "ok") EXCEPT !.result =
                    <<Load(heap.bytes, reply_buf + size_offset, sizeof_size_t),
                      Load(heap.bytes, reply_buf + op_offset, sizeof_Opcode),
                      Load(heap.bytes, reply_buf + from_offset, sizeof_node_id_t)>>]
               /\ UNCHANGED heap
          ELSE \E u \in MemoryUB :
                 /\ heap' = IF u = "crash" THEN [heap EXCEPT !.state = "crashed"]
                            ELSE heap
                 /\ hdr_op' = HdrOp("retrieve_header", u)
    /\ UNCHANGED <<not_hdr_vars, abi, header_args>>

\* a build with 4 or 8 bytes of size_t, of either byte order
InitHeaders ==
    /\ abi \in [size_t_bytes : {4, 8}, little_endian : BOOLEAN]
    /\ heap = NoHeap
    /\ header_args = NoArgs
    /\ hdr_op = HdrOp("init", "ok")

InitHeader == InitRpc /\ IdleRegions /\ InitHeaders /\ NotStarted /\ NoThreads /\ NoSums

NextHeader ==
    \/ \E i \in (0 - 1)..MaxBody, allocated \in BOOLEAN : extra_alloc(i, allocated)
    \/ \E k \in 0..(MaxBody - 1), v \in BodyBytes : write_body(k, v)
    \/ \E payload_size \in FieldValues(sizeof_size_t), op \in FieldValues(sizeof_Opcode),
          from \in FieldValues(sizeof_node_id_t) :
          populate_header(payload_size, op, from)
    \/ retrieve_header

SpecHeader == InitHeader /\ [][NextHeader]_vars

\* ---- missed_counters: main() up to the first printing of the counters ----
\* mutant: sync_with_members is called before put
AfterLine_sync_first(l) ==
    CASE l = "set_counter" -> "set_heartbeat"
      [] l = "set_heartbeat" -> "sync_with_members"
      [] l = "sync_with_members" -> "put"
      [] l = "put" -> "sleep"
      [] l = "sleep" -> "print"
      [] l = "print" -> "done"
\* the statements of lines 195-205 in their order
AfterLine(l) ==
    CASE l = "set_counter" -> "set_heartbeat"
      [] l = "set_heartbeat" -> "put"
      [] l = "put" -> "sync_with_members"
      [] l = "sync_with_members" -> "sleep"
      [] l = "sleep" -> "print"
      [] l = "print" -> "done"

Peer(p) == Members \ {p}

\* line 195: sst.counter[my_rank] = 0
main_set_counter(p) ==
    /\ main_pc[p] = "set_counter"
    /\ table' = [table EXCEPT ![p][p].counter = 0]
    /\ main_pc' = [main_pc EXCEPT ![p] = AfterLine("set_counter")]
    /\ UNCHANGED <<not_sst_vars, chan, sync_seen, printed, row_put>>

\* line 196: sst.heartbeat[my_rank] = 0
main_set_heartbeat(p) ==
    /\ main_pc[p] = "set_heartbeat"
    /\ table' = [table EXCEPT ![p][p].heartbeat = FALSE]
    /\ main_pc' = [main_pc EXCEPT ![p] = AfterLine("set_heartbeat")]
    /\ UNCHANGED <<not_sst_vars, chan, sync_seen, printed, row_put>>

\* SST::put(): a remote write of the local row to every peer, not waited for
SST_put(p) ==
    [o \in Members |-> [d \in Members |->
        IF o = p /\ d # p
        THEN Append(chan[o][d], [kind |-> "write", row |-> table[p][p]])
        ELSE chan[o][d]]]
\* line 197: sst.put()
main_put(p) ==
    /\ main_pc[p] = "put"
    /\ chan' = SST_put(p)
    /\ row_put' = [row_put EXCEPT ![p] = table[p][p]]
    /\ main_pc' = [main_pc EXCEPT ![p] = AfterLine("put")]
    /\ UNCHANGED <<not_sst_vars, table, sync_seen, printed>>

\* SST::sync_with_members(): a sync message to every peer, then the wait for
\* the sync message of every peer
SST_sync_send(p) ==
    [o \in Members |-> [d \in Members |->
        IF o = p /\ d # p THEN Append(chan[o][d], [kind |-> "sync"])
        ELSE chan[o][d]]]
SST_sync_done(p) == \A q \in Peer(p) : sync_seen[p][q] > 0
\* line 198: sst.sync_with_members(), entered
main_sync_enter(p) ==
    /\ main_pc[p] = "sync_with_members"
    /\ chan' = SST_sync_send(p)
    /\ main_pc' = [main_pc EXCEPT ![p] = "syncing"]
    /\ UNCHANGED <<not_sst_vars, table, sync_seen, printed, row_put>>
\* line 198: sst.sync_with_members() returns
main_sync_return(p) ==
    /\ main_pc[p] = "syncing"
    /\ SST_sync_done(p)
    /\ sync_seen' = [sync_seen EXCEPT ![p] = [q \in Members |->
                        IF q = p THEN @[q] ELSE @[q] - 1]]
    /\ main_pc' = [main_pc EXCEPT ![p] = AfterLine("sync_with_members")]
    /\ UNCHANGED <<not_sst_vars, table, chan, printed, row_put>>

\* the transport delivers the oldest message from o to d: a remote write lands
\* in row o of d's table, a sync message is noted
deliver(o, d) ==
    /\ chan[o][d] # <<>>
    /\ LET m == Head(chan[o][d])
       IN IF m.kind = "write"
          THEN /\ table' = [table EXCEPT ![d][o] = m.row]
               /\ UNCHANGED sync_seen
          ELSE IF m.kind = "write_counter"
          THEN /\ table' = [table EXCEPT ![d][o].counter = m.counter]
               /\ UNCHANGED sync_seen
          ELSE IF m.kind = "write_heartbeat"
          THEN /\ table' = [table EXCEPT ![d][o].heartbeat = m.heartbeat]
               /\ UNCHANGED sync_seen
          ELSE /\ sync_seen' = [sync_seen EXCEPT ![d][o] = @ + 1]
               /\ UNCHANGED table
    /\ chan' = [chan EXCEPT ![o][d] = Tail(@)]
    /\ UNCHANGED <<not_sst_vars, main_pc, printed, row_put>>

\* line 200: sleep_for(2 s)
main_sleep(p) ==
    /\ main_pc[p] = "sleep"
    /\ main_pc' = [main_pc EXCEPT ![p] = AfterLine("sleep")]
    /\ UNCHANGED <<not_sst_vars, table, chan, sync_seen, printed, row_put>>

\* lines 203-205: the counter of every row is read and printed
main_print(p) ==
    /\ main_pc[p] = "print"
    /\ printed' = [printed EXCEPT ![p] = [i \in Members |-> table[p][i].counter]]
    /\ main_pc' = [main_pc EXCEPT ![p] = AfterLine("print")]
    /\ UNCHANGED <<not_sst_vars, table, chan, sync_seen, row_put>>

\* every process is about to run line 195; what its table holds is whatever
\* the SST was constructed with
InitCounters ==
    /\ main_pc = [p \in Members |-> "set_counter"]
    /\ table \in [Members -> {[q \in Members |-> r] : r \in Rows}]
    /\ chan = [o \in Members |-> [d \in Members |-> <<>>]]
    /\ sync_seen = [p \in Members |-> [q \in Members |-> 0]]
    /\ printed = [p \in Members |-> <<>>]
    /\ row_put = [p \in Members |-> <<>>]

InitSST == InitRpc /\ IdleRegions /\ IdleHeaders /\ InitCounters /\ NoThreads /\ NoSums

NextSST ==
    \/ \E p \in Members : main_set_counter(p)
    \/ \E p \in Members : main_set_heartbeat(p)
    \/ \E p \in Members : main_put(p)
    \/ \E p \in Members : main_sync_enter(p)
    \/ \E p \in Members : main_sync_return(p)
    \/ \E o \in Members, d \in Members : deliver(o, d)
    \/ \E p \in Members : main_sleep(p)
    \/ \E p \in Members : main_print(p)

SpecSST == InitSST /\ [][NextSST]_vars

\* ---- missed_counters: the sender and the receiver threads ----
\* line 218: the check_failures thread is started
main_start_failures(p) ==
    /\ main_pc[p] = "done"
    /\ failures_pc' = [failures_pc EXCEPT ![p] = "sleep"]
    /\ main_pc' = [main_pc EXCEPT ![p] = "start_receiver"]
    /\ UNCHANGED <<not_mc_vars, table, chan, sync_seen, printed, row_put,
                   num_msgs, sender_pc, send_i, receiver_pc, for_i,
                   last_received, recv_j, received_msgs, beats>>

\* SST::put_with_completion(field): as put(field), and the caller waits until
\* the transport has completed the writes
SST_put_heartbeat(p) ==
    [o \in Members |-> [d \in Members |->
        IF o = p /\ d # p
        THEN Append(chan[o][d], [kind |-> "write_heartbeat",
                                 heartbeat |-> table[p][p].heartbeat])
        ELSE chan[o][d]]]
SST_completed(p) ==
    \A d \in Members : \A k \in DOMAIN chan[p][d] :
        chan[p][d][k].kind # "write_heartbeat"
\* lines 213-214: after the sleep, sst.put_with_completion(sst.heartbeat)
failures_put(p) ==
    /\ failures_pc[p] = "sleep"
    /\ beats[p] < MaxBeats
    /\ chan' = SST_put_heartbeat(p)
    /\ beats' = [beats EXCEPT ![p] = @ + 1]
    /\ failures_pc' = [failures_pc EXCEPT ![p] = "put_with_completion"]
    /\ UNCHANGED <<not_mc_vars, main_pc, table, sync_seen, printed, row_put,
                   num_msgs, sender_pc, send_i, receiver_pc, for_i,
                   last_received, recv_j, received_msgs>>
\* line 214: put_with_completion returns
failures_completed(p) ==
    /\ failures_pc[p] = "put_with_completion"
    /\ SST_completed(p)
    /\ failures_pc' = [failures_pc EXCEPT ![p] = "sleep"]
    /\ UNCHANGED <<not_mc_vars, sst_vars, num_msgs, sender_pc, send_i,
                   receiver_pc, for_i, last_received, recv_j, received_msgs,
                   beats>>

\* lines 234, 241-245 and 270: received_msgs, last_received and j are made,
\* all zero, and the receiver thread is started
main_start_receiver(p) ==
    /\ main_pc[p] = "start_receiver"
    /\ received_msgs' = [received_msgs EXCEPT
                            ![p] = [i \in Members |-> ZeroVector(num_msgs)]]
    /\ last_received' = [last_received EXCEPT ![p] = [i \in Members |-> 0]]
    /\ recv_j' = [recv_j EXCEPT ![p] = [i \in Members |-> 0]]
    /\ receiver_pc' = [receiver_pc EXCEPT ![p] = "while"]
    /\ main_pc' = [main_pc EXCEPT ![p] = "sync_with_members_2"]
    /\ UNCHANGED <<not_mc_vars, fail_vars, table, chan, sync_seen, printed, row_put,
                   num_msgs, sender_pc, send_i, for_i>>

\* line 271: sst.sync_with_members(), entered
main_sync_2_enter(p) ==
    /\ main_pc[p] = "sync_with_members_2"
    /\ chan' = SST_sync_send(p)
    /\ main_pc' = [main_pc EXCEPT ![p] = "syncing_2"]
    /\ UNCHANGED <<not_sst_vars, table, sync_seen, printed, row_put>>
\* line 271: sst.sync_with_members() returns
main_sync_2_return(p) ==
    /\ main_pc[p] = "syncing_2"
    /\ SST_sync_done(p)
    /\ sync_seen' = [sync_seen EXCEPT ![p] = [q \in Members |->
                        IF q = p THEN @[q] ELSE @[q] - 1]]
    /\ main_pc' = [main_pc EXCEPT ![p] = "start_sender"]
    /\ UNCHANGED <<not_sst_vars, table, chan, printed, row_put>>

\* mutant: the sender runs one pass more
sender_for_test_late(i) == i <= num_msgs + 1
\* line 225: i <= num_msgs
sender_for_test(i) == i <= num_msgs

\* line 274: the sender thread is started; line 225: i = 1
main_start_sender(p) ==
    /\ main_pc[p] = "start_sender"
    /\ send_i' = [send_i EXCEPT ![p] = 1]
    /\ sender_pc' = [sender_pc EXCEPT ![p] =
                        IF sender_for_test(1) THEN "incr" ELSE "finished"]
    /\ main_pc' = [main_pc EXCEPT ![p] = "join"]
    /\ UNCHANGED <<not_mc_vars, fail_vars, table, chan, sync_seen, printed, row_put,
                   num_msgs, receiver_pc, for_i, last_received, recv_j,
                   received_msgs>>

\* line 226: sst.counter[my_rank]++, the store of one 64-bit word; the
\* receiver of the same process reads the word without synchronisation and
\* gets the value before or the value after
sender_incr(p) ==
    /\ sender_pc[p] = "incr"
    /\ table' = [table EXCEPT ![p][p].counter = @ + 1]
    /\ sender_pc' = [sender_pc EXCEPT ![p] = "put"]
    /\ UNCHANGED <<not_mc_vars, fail_vars, main_pc, chan, sync_seen, printed, row_put,
                   num_msgs, send_i, receiver_pc, for_i, last_received, recv_j,
                   received_msgs>>

\* SST::put(field): a remote write of the field of the local row to every
\* peer, not waited for
SST_put_counter(p) ==
    [o \in Members |-> [d \in Members |->
        IF o = p /\ d # p
        THEN Append(chan[o][d], [kind |-> "write_counter",
                                 counter |-> table[p][p].counter])
        ELSE chan[o][d]]]
\* line 227: sst.put(sst.counter); line 225: i++, i <= num_msgs
sender_put(p) ==
    /\ sender_pc[p] = "put"
    /\ chan' = SST_put_counter(p)
    /\ send_i' = [send_i EXCEPT ![p] = @ + 1]
    /\ sender_pc' = [sender_pc EXCEPT ![p] =
                        IF sender_for_test(send_i[p] + 1) THEN "incr"
                        ELSE "finished"]
    /\ UNCHANGED <<not_mc_vars, fail_vars, main_pc, table, sync_seen, printed, row_put,
                   num_msgs, receiver_pc, for_i, last_received, recv_j,
                   received_msgs>>

\* line 254: the loop goes on until every last_received is num_msgs
receiver_while(p) ==
    /\ receiver_pc[p] = "while"
    /\ IF \A i \in Members : last_received[p][i] = num_msgs
       THEN /\ receiver_pc' = [receiver_pc EXCEPT ![p] = "finished"]
            /\ UNCHANGED for_i
       ELSE /\ receiver_pc' = [receiver_pc EXCEPT ![p] = "for"]
            /\ for_i' = [for_i EXCEPT ![p] = 1]
    /\ UNCHANGED <<not_mc_vars, fail_vars, sst_vars, num_msgs, sender_pc, send_i,
                   last_received, recv_j, received_msgs>>

\* a store into a vector beyond its end
VectorUB == {"crash", "overrun"}
\* mutant: every value read is taken for a new one
same_as_last_never(actual_received, last) == FALSE
\* line 258: actual_received == last_received[i]
same_as_last(actual_received, last) == actual_received = last

\* lines 255-264: one pass of the for loop, which reads sst.counter[i] once
receiver_for(p) ==
    /\ receiver_pc[p] = "for"
    /\ LET i == for_i[p]
           actual_received == table[p][i].counter
           after == IF i < NumNodes THEN "for" ELSE "while"
       IN /\ for_i' = [for_i EXCEPT ![p] = IF i < NumNodes THEN i + 1 ELSE @]
          /\ IF same_as_last(actual_received, last_received[p][i])
             THEN /\ receiver_pc' = [receiver_pc EXCEPT ![p] = after]
                  /\ UNCHANGED <<last_received, recv_j, received_msgs>>
             ELSE IF recv_j[p][i] \in DOMAIN received_msgs[p][i]
             THEN /\ received_msgs' = [received_msgs EXCEPT
                                          ![p][i][recv_j[p][i]] = actual_received]
                  /\ recv_j' = [recv_j EXCEPT ![p][i] = @ + 1]
                  /\ last_received' = [last_received EXCEPT
                                          ![p][i] = actual_received]
                  /\ receiver_pc' = [receiver_pc EXCEPT ![p] = after]
             ELSE /\ \E ub \in VectorUB :
                        receiver_pc' = [receiver_pc EXCEPT ![p] = ub]
                  /\ UNCHANGED <<last_received, recv_j, received_msgs>>
    /\ UNCHANGED <<not_mc_vars, fail_vars, sst_vars, num_msgs, sender_pc, send_i>>

\* lines 277-278: both threads are joined
main_join(p) ==
    /\ main_pc[p] = "join"
    /\ sender_pc[p] = "finished"
    /\ receiver_pc[p] = "finished"
    /\ main_pc' = [main_pc EXCEPT ![p] = "joined"]
    /\ UNCHANGED <<not_sst_vars, table, chan, sync_seen, printed, row_put>>

InitThreads ==
    /\ num_msgs \in 1..MaxMsgs
    /\ sender_pc = [p \in Members |-> "none"]
    /\ send_i = [p \in Members |-> 1]
    /\ receiver_pc = [p \in Members |-> "none"]
    /\ for_i = [p \in Members |-> 1]
    /\ last_received = [p \in Members |-> [i \in Members |-> 0]]
    /\ recv_j = [p \in Members |-> [i \in Members |-> 0]]
    /\ received_msgs = [p \in Members |-> [i \in Members |-> ZeroVector(1)]]
    /\ failures_pc = [p \in Members |-> "none"]
    /\ beats = [p \in Members |-> 0]

InitLoops ==
    InitRpc /\ IdleRegions /\ IdleHeaders /\ InitCounters /\ InitThreads /\ NoSums

NextLoops ==
    \/ NextSST
    \/ \E p \in Members : main_start_failures(p)
    \/ \E p \in Members : failures_put(p)
    \/ \E p \in Members : failures_completed(p)
    \/ \E p \in Members : main_start_receiver(p)
    \/ \E p \in Members : main_sync_2_enter(p)
    \/ \E p \in Members : main_sync_2_return(p)
    \/ \E p \in Members : main_start_sender(p)
    \/ \E p \in Members : sender_incr(p)
    \/ \E p \in Members : sender_put(p)
    \/ \E p \in Members : receiver_while(p)
    \/ \E p \in Members : receiver_for(p)
    \/ \E p \in Members : main_join(p)

SpecLoops == InitLoops /\ [][NextLoops]_vars

\* ---- missed_counters: print_partial_sums ----
\* the row of received_msgs the function works on
SumsRow == IF sums_i = 0 THEN my_rank ELSE sums_i
SumsVector == received_msgs[my_rank][SumsRow]
size(v) == Cardinality(DOMAIN v)

\* lines 58-64 and 99-105: logic_size counts the leading strictly increasing
\* values; i is the loop variable, which equals logic_size on every pass
RECURSIVE logic_size_loop(_, _)
logic_size_loop(v, i) ==
    IF i < size(v) /\ v[i] > v[i - 1] THEN logic_size_loop(v, i + 1) ELSE i
sums_logic_size ==
    /\ sums_pc = "logic_size"
    /\ logic_size' = logic_size_loop(SumsVector, 1)
    /\ sums_access' = {k \in 0..logic_size' :
                          k < size(SumsVector) /\ size(SumsVector) > 1}
    /\ sums_pc' = "start_index"
    /\ UNCHANGED <<not_sums_vars, received_msgs, my_rank, sums_i, start_index,
                   sums_j, count_missed, num_intervals_with_missed>>

\* lines 66-72 and 111-121: the first index below logic_size whose value is
\* above num_msgs / 2, and 0 if there is none
RECURSIVE start_index_loop(_, _, _)
start_index_loop(v, i, n) ==
    IF i < n
    THEN IF v[i] > num_msgs \div 2 THEN i ELSE start_index_loop(v, i + 1, n)
    ELSE 0
RECURSIVE start_index_reads(_, _, _)
start_index_reads(v, i, n) ==
    IF i < n
    THEN {i} \cup (IF v[i] > num_msgs \div 2 THEN {}
                   ELSE start_index_reads(v, i + 1, n))
    ELSE {}
sums_start_index ==
    /\ sums_pc = "start_index"
    /\ start_index' = start_index_loop(SumsVector, 0, logic_size)
    /\ sums_access' = start_index_reads(SumsVector, 0, logic_size)
    /\ sums_pc' = "store"
    /\ UNCHANGED <<not_sums_vars, received_msgs, my_rank, sums_i, logic_size,
                   sums_j, count_missed, num_intervals_with_missed>>

\* k - 1 in uint64_t: at k = 0 it is 2^64 - 1, and v[2^64 - 1] is the word
\* in front of v[0]; that index is written -1 here
minus_one(k) == k - 1

\* lines 76 and 128: received_msgs[i][start_index - 1] = num_msgs / 2, and the
\* loop of lines 77 and 129 starts with j = start_index
sums_store ==
    /\ sums_pc = "store"
    /\ sums_access' = {minus_one(start_index)}
    /\ IF minus_one(start_index) \in DOMAIN SumsVector
       THEN /\ received_msgs' = [received_msgs EXCEPT
                   ![my_rank][SumsRow][minus_one(start_index)] = num_msgs \div 2]
            /\ sums_j' = start_index
            /\ sums_pc' = "count"
       ELSE /\ sums_pc' \in VectorUB
            /\ UNCHANGED <<received_msgs, sums_j>>
    /\ UNCHANGED <<not_sums_vars, my_rank, sums_i, logic_size, start_index,
                   count_missed, num_intervals_with_missed>>

\* lines 77-82 and 129-146: one pass of the loop, or its end
sums_count ==
    /\ sums_pc = "count"
    /\ IF sums_j < logic_size
       THEN LET v == SumsVector
                missed == v[sums_j] - v[minus_one(sums_j)] - 1
            IN /\ sums_access' = {sums_j, minus_one(sums_j)}
               /\ count_missed' = count_missed + missed
               /\ num_intervals_with_missed' =
                     IF missed > 0 THEN num_intervals_with_missed + 1
                     ELSE num_intervals_with_missed
               /\ sums_j' = sums_j + 1
               /\ UNCHANGED sums_pc
       ELSE /\ sums_pc' = "next"
            /\ sums_access' = {}
            /\ UNCHANGED <<sums_j, count_missed, num_intervals_with_missed>>
    /\ UNCHANGED <<not_sums_vars, received_msgs, my_rank, sums_i, logic_size,
                   start_index>>

\* lines 84-88 after the local part, lines 93-96 and 149: the sums are
\* written out and reset after the local part; the next row that is not
\* my_rank is taken, and the function ends after the last one
NextRows == {i \in Members : i > sums_i /\ i # my_rank}
sums_next ==
    /\ sums_pc = "next"
    /\ IF sums_i = 0
       THEN count_missed' = 0 /\ num_intervals_with_missed' = 0
       ELSE UNCHANGED <<count_missed, num_intervals_with_missed>>
    /\ IF NextRows # {}
       THEN /\ sums_i' = CHOOSE i \in NextRows : \A k \in NextRows : i <= k
            /\ sums_pc' = "logic_size"
       ELSE /\ sums_pc' = "done"
            /\ UNCHANGED sums_i
    /\ sums_access' = {}
    /\ UNCHANGED <<not_sums_vars, received_msgs, my_rank, logic_size,
                   start_index, sums_j>>

\* what receiver_loop can leave in received_msgs[i]: values rising strictly
\* within 1..n up to n, then the zeros the vector was made with
ReceptionVectors(n) ==
    {v \in [0..(n - 1) -> 0..n] :
        \E k \in 1..n :
            /\ v[k - 1] = n
            /\ \A a \in 0..(k - 1) : v[a] >= 1
            /\ \A a \in 0..(k - 1), b \in 0..(k - 1) : a < b => v[a] < v[b]
            /\ \A a \in k..(n - 1) : v[a] = 0}

\* line 285: print_partial_sums is called by one process, after its threads
\* were joined, with the received_msgs its receiver left
InitPartialSums ==
    /\ my_rank \in Members
    /\ num_msgs \in 1..MaxMsgs
    /\ \E rows \in [Members -> ReceptionVectors(num_msgs)] :
          received_msgs = [p \in Members |->
                              IF p = my_rank THEN rows
                              ELSE [i \in Members |-> ZeroVector(1)]]
    /\ sender_pc = [p \in Members |-> IF p = my_rank THEN "finished" ELSE "none"]
    /\ send_i = [p \in Members |-> IF p = my_rank THEN num_msgs + 1 ELSE 1]
    /\ receiver_pc = [p \in Members |-> IF p = my_rank THEN "finished" ELSE "none"]
    /\ for_i = [p \in Members |-> 1]
    /\ last_received = [p \in Members |-> [i \in Members |->
                            IF p = my_rank THEN num_msgs ELSE 0]]
    /\ recv_j = [p \in Members |-> [i \in Members |->
                    IF p = my_rank
                    THEN Cardinality({k \in DOMAIN received_msgs[p][i] :
                                         received_msgs[p][i][k] # 0})
                    ELSE 0]]
    /\ failures_pc = [p \in Members |-> "none"]
    /\ beats = [p \in Members |-> 0]
    /\ sums_pc = "logic_size"
    /\ sums_i = 0
    /\ logic_size = 1
    /\ start_index = 0
    /\ sums_j = 0
    /\ count_missed = 0
    /\ num_intervals_with_missed = 0
    /\ sums_access = {}

InitSums == InitRpc /\ IdleRegions /\ IdleHeaders /\ NotStarted /\ InitPartialSums

NextSums ==
    \/ sums_logic_size
    \/ sums_start_index
    \/ sums_store
    \/ sums_count
    \/ sums_next

SpecSums == InitSums /\ [][NextSums]_vars

\* ---- properties ----
RemovalOf(op, p) == op.op = "set_exception_for_removed_node" /\ op.nid = p
Slot(pp, p) == Index(pp, p)

\* C1: when fulfill_map was called (once) with list D and every peer of D has
\* replied or been reported removed, the published map has exactly one slot per
\* distinct peer of D and every slot was fulfilled exactly once.
C1_AllSlotsOnce ==
    (fulfill_calls = 1 /\ Range(who_given) \subseteq responded_nodes) =>
        /\ pending_map.val = {Range(who_given)}
        /\ \A p \in Range(who_given) : Len(stored[p]) = 1

\* C2: set_exception_for_removed_node(p) on a destination p that has not
\* responded leaves the slot of p holding node_removed_from_group_exception(p),
\* and no slot ever holds both a value and an error.
NeverBoth ==
    \A p \in DOMAIN populated_promises :
        /\ ~(populated_promises[p].val # {} /\ populated_promises[p].exc # {})
        /\ Cardinality(populated_promises[p].val \cup populated_promises[p].exc) <= 1
C2_RemovedResolves ==
    /\ [][\A p \in Peers :
            (RemovalOf(last_op', p) /\ p \in dest_nodes /\ p \notin responded_nodes)
            => /\ p \in DOMAIN populated_promises'
               /\ populated_promises'[p].exc = {node_removed_from_group_exception(p)}
               /\ populated_promises'[p].val = {}]_vars
    /\ []NeverBoth
C2_Witness ==
    /\ RemovalOf(last_op, last_op.nid)
    /\ last_op.first
    /\ populated_promises[last_op.nid].exc =
          {node_removed_from_group_exception(last_op.nid)}

\* C3: when set_value(p, v) and set_exception_for_removed_node(p) both target
\* the slot of a destination p, the later of the two is ignored: it neither
\* raises an error nor aborts.
C3_SecondIgnored ==
    \A p \in dest_nodes :
        LET pr == Slot(populated_promises, p)
        IN /\ (last_op.op = "set_value" /\ last_op.nid = p
                  /\ pr.exc = {node_removed_from_group_exception(p)})
              => (last_op.status = "ok" /\ alive)
           /\ (RemovalOf(last_op, p) /\ map_fulfilled /\ pr.val # {})
              => (last_op.status = "ok" /\ alive)

\* C4 (as stated): set_exception_for_removed_node(peer) is a no-op, without
\* error or abort, unless fulfill_map was called, peer is a destination and
\* peer has not responded; then it installs the node-removed error.
RemovalNoOp ==
    /\ populated_promises' = populated_promises
    /\ responded_nodes' = responded_nodes
    /\ dest_nodes' = dest_nodes
    /\ map_fulfilled' = map_fulfilled
    /\ pending_map' = pending_map
    /\ stored' = stored
RemovalInstalls(p) ==
    /\ p \in DOMAIN populated_promises'
    /\ populated_promises'[p].exc = {node_removed_from_group_exception(p)}
    /\ p \in responded_nodes'
    /\ Len(stored'[p]) = Len(stored[p]) + 1
C5_GetYieldsInstalled ==
    (last_op.op = "ReplyMap_get" /\ last_op.first /\ last_op.nid \in DOMAIN rmap) =>
        LET p == last_op.nid
        IN /\ last_op.status \in {"ok", "thrown"}
           /\ Len(stored[p]) >= 1
           /\ last_op.val = stored[p][1].val
           /\ last_op.exc = stored[p][1].exc
           /\ (last_op.status = "thrown") = (last_op.exc # {})
           /\ (last_op.status = "ok") = (last_op.val # {})
           /\ stored[p][1].by = "set_exception_for_removed_node"
                 => last_op.exc = {node_removed_from_group_exception(p)}
C5_Witness ==
    /\ last_op.op = "ReplyMap_get"
    /\ last_op.status = "thrown"
    /\ last_op.exc = {node_removed_from_group_exception(last_op.nid)}
    /\ \E q \in consumed \ {last_op.nid} :
          /\ stored[q] # <<>>
          /\ stored[q][1].val # {}
          /\ Len(stored[last_op.nid]) = 1

\* C6: the map is published at most once and no per-peer future is handed
\* out twice, whatever calls are made (repeated fulfill_map, repeated peer).
C6_PublishedOnce ==
    /\ published <= 1
    /\ Cardinality(pending_map.val) <= 1
    /\ \A p \in Peers : handed[p] <= 1
C6_Witness ==
    /\ fulfill_calls >= 2
    /\ published = 1
    /\ last_op.op = "fulfill_map"
    /\ last_op.status = "future_error"

\* C7 (as stated): valid(peer) is true iff the map is populated and the slot
\* of peer has been fulfilled.
C7_ValidIffFulfilled ==
    (last_op.op = "valid" /\ last_op.status = "ok") =>
        (last_op.flag <=> promise_satisfied(Index(populated_promises, last_op.nid)))

\* C7 (amended): valid(peer) is true iff peer is a key of the (non-empty) map
\* and the future of peer has not been consumed by ReplyMap.get(peer), whether
\* or not the slot has been fulfilled.
C7_ValidIffNotConsumed ==
    (last_op.op = "valid" /\ last_op.status = "ok") =>
        (last_op.flag <=> (last_op.nid \in DOMAIN rmap /\ last_op.nid \notin consumed))
C7_Witness ==
    /\ last_op.op = "valid"
    /\ last_op.status = "ok"
    /\ last_op.flag
    /\ last_op.nid \in dest_nodes
    /\ ~promise_satisfied(Index(populated_promises, last_op.nid))

\* C8: wait returns nullptr while no map is published and the map otherwise,
\* and every wait after one that returned the map returns the map again.
C8_WaitReturnsMap ==
    last_op.op = "wait" =>
        IF last_op.flag
        THEN last_op.status = "replies"
        ELSE /\ last_op.status \in {"replies", "nullptr"}
             /\ (last_op.status = "replies") = (published >= 1)

\* C9: get() returns only a published map, holding one future per
\* destination, and a call of get() does not end otherwise.
C9_GetReturnsMap ==
    /\ get_pc = "returned" => /\ published = 1
                              /\ pending_map.val = {DOMAIN rmap}
                              /\ fulfill_calls = 1 => DOMAIN rmap = Range(who_given)
    /\ get_pc # "threw"

\* C10: installing an outcome for p leaves every other peer's slot, the
\* destination set and the published map as they were.
IsInstall(op) ==
    op.op \in {"set_value", "set_exception", "set_exception_for_removed_node"}
C10_OthersUntouched ==
    [][\A p \in Peers : (IsInstall(last_op') /\ last_op'.nid = p) =>
          /\ \A q \in Peers \ {p} :
                /\ (q \in DOMAIN populated_promises') = (q \in DOMAIN populated_promises)
                /\ Slot(populated_promises', q) = Slot(populated_promises, q)
                /\ (q \in responded_nodes') = (q \in responded_nodes)
                /\ stored'[q] = stored[q]
          /\ dest_nodes' = dest_nodes
          /\ map_fulfilled' = map_fulfilled
          /\ pending_map' = pending_map
          /\ rmap' = rmap]_vars
C10_Witness ==
    /\ IsInstall(last_op)
    /\ last_op.first
    /\ {1, 2} \subseteq dest_nodes
    /\ \E q \in Peers \ {last_op.nid} : Len(stored[q]) = 1

\* the node-removed errors among the outcomes stored for one node
RemovedStores(st) ==
    {i \in DOMAIN st : st[i].by = "set_exception_for_removed_node"}

\* C17: for a destination p that has not responded, the first
\* set_exception_for_removed_node(p) installs the node-removed error, and every
\* later call for p changes nothing and raises no error: the error is
\* installed exactly once
C17_RemovalIdempotent ==
    [][\A p \in Peers : RemovalOf(last_op', p) =>
          /\ (p \in dest_nodes /\ p \notin responded_nodes)
                => /\ RemovalInstalls(p)
                   /\ Cardinality(RemovedStores(stored'[p])) = 1
                   /\ last_op'.status = "ok"
                   /\ alive'
          /\ RemovedStores(stored[p]) # {}
                => /\ RemovalNoOp
                   /\ UNCHANGED <<alive, query_vars, get_pc>>
                   /\ last_op'.status = "ok"
                   /\ last_op'.exc = {}
                   /\ Cardinality(RemovedStores(stored'[p])) = 1]_vars
C17_Witness ==
    /\ RemovalOf(last_op, last_op.nid)
    /\ last_op.status = "ok"
    /\ ~last_op.first
    /\ last_op.nid \in dest_nodes
    /\ Len(stored[last_op.nid]) = 1
    /\ RemovedStores(stored[last_op.nid]) = {1}

\* ---- properties of the memory regions ----
\* the manager of p holds the connection that handle names
ManagerHolds(p, handle) == handle # 0 /\ mgr[p].held /\ mgr[p].gen = handle
\* the connection the region of p is bound to is there and not flagged broken
Live(p) == ManagerHolds(p, region[p].rdma_connection) /\ ~mgr[p].is_broken
\* the size the region of p was constructed with: the length it registered
ConstructedSize(p) == region[p].write_mr.len

\* a step in which p calls the constructor, write_remote or sync
RegionCall(p) ==
    /\ mr_op'.at = p
    /\ mr_op'.op \in {"MemoryRegion", "write_remote", "sync"}
    /\ mr_op'.op = "MemoryRegion" => region[p].state = "none"
    /\ <<mr_op, region, mr_alive>>' # <<mr_op, region, mr_alive>>
\* the handle that call upgrades
CallHandle(p) ==
    IF region[p].state = "none" THEN RDMAConnectionManager_get(p)
    ELSE region[p].rdma_connection

\* C11: write_remote(offset, size, _) with offset + size beyond the size the
\* region was constructed with is rejected and issues no write; within that
\* size, on a live connection, it issues the write
C11_BoundsEnforced ==
    mr_op.op = "write_remote" =>
        LET p == mr_op.at
        IN /\ mr_op.offset + mr_op.size > ConstructedSize(p)
                => mr_op.status # "ok" /\ mr_op.write = {}
           /\ (mr_op.offset + mr_op.size <= ConstructedSize(p) /\ Live(p))
                => mr_op.status = "ok" /\ mr_op.write # {}

AssertionFails(op) ==
    /\ op.op = "write_remote"
    /\ ~ndebug
    /\ ~(size_t_add(op.offset, op.size) <= region[op.at].size)

ExchangedWords == Keys \cup {FI_KEY_NOTAVAIL} \cup {RecvBufOf(p) : p \in Ends}
                       \cup {SendBufOf(p) : p \in Ends}

\* C18: when p has completed its constructor, the remote key it stored is the
\* key its peer obtained for the peer's receive buffer and the remote base
\* address it stored is that buffer's address; and a word sent by one process
\* (htonll, then its bytes on the wire) is read back unchanged by the other
\* (the bytes into a word, then ntohll), whatever the byte orders of the two
C18_ExchangeIdentity ==
    /\ \A p \in Ends :
          region[p].state = "ready" =>
              /\ region[Other(p)].state \in {"exchanging", "ready"}
              /\ region[p].mr_rwkey = region[Other(p)].read_mr.key
              /\ region[p].mr_rwkey = region[Other(p)].mr_lrkey
              /\ region[p].remote_recv_buf = region[Other(p)].recv_buf
    /\ \A p \in Ends, w \in ExchangedWords :
          LET sent == WireBytes(p, [mr_key |-> htonll(host[p].little_endian, w),
                                    vaddr |-> htonll(host[p].little_endian, w)])
              got == RemoteData(Other(p), sent)
          IN /\ ntohll(host[Other(p)].little_endian, got.mr_key) = w
             /\ ntohll(host[Other(p)].little_endian, got.vaddr) = w
C18_Witness ==
    /\ \A p \in Ends : region[p].state = "ready"
    /\ region[1].mr_lrkey # region[2].mr_lrkey
    /\ region[1].mr_lrkey # region[1].mr_lwkey
    /\ host[1].little_endian # host[2].little_endian
    /\ region[1].mr_rwkey # Reverse(region[1].mr_rwkey)

\* C19: a write issued by write_remote(offset, size, _) on p reads from
\* send_buf + offset and targets the peer's recv_buf + offset; its local key is
\* the key of the registration of send_buf and its remote key the key the peer
\* registered for its recv_buf
C19_WriteMatchesBuffers ==
    (mr_op.op = "write_remote" /\ mr_op.write # {}) =>
        LET p == mr_op.at
        IN \A w \in mr_op.write :
              /\ w.local_addr = PtrAdd(region[p].send_buf, mr_op.offset)
              /\ w.remote_addr = PtrAdd(region[Other(p)].recv_buf, mr_op.offset)
              /\ w.size = mr_op.size
              /\ w.remote_key = region[Other(p)].read_mr.key
              /\ w.local_key = region[p].write_mr.key

\* ---- properties of the message header ----
\* the widths of the three fields, and their sum
FieldWidths == <<sizeof_size_t, sizeof_Opcode, sizeof_node_id_t>>
HeaderWidth == FieldWidths[1] + FieldWidths[2] + FieldWidths[3]

\* C15: retrieve_header of a buffer written by populate_header yields the
\* triple (payload_size, opcode, from) that was written, and the three fields
\* occupy disjoint byte ranges
C15_HeaderRoundTrip ==
    /\ (hdr_op.op = "retrieve_header" /\ hdr_op.status = "ok" /\ header_args # NoArgs)
          => hdr_op.result = header_args
    /\ size_offset + FieldWidths[1] <= op_offset
    /\ op_offset + FieldWidths[2] <= from_offset
C15_Witness ==
    /\ hdr_op.op = "retrieve_header"
    /\ hdr_op.status = "ok"
    /\ header_args # NoArgs
    /\ hdr_op.result = <<Ramp(sizeof_size_t, 1), [i \in 1..sizeof_Opcode |-> 255],
                         Ramp(sizeof_node_id_t, 2)>>
    /\ abi.little_endian

\* C20: populate_header at b - header_space(), for the body pointer b of
\* extra_alloc(N) with N >= 0, stays inside the allocation, writes
\* payload_size, opcode and from in this order into the first header_space()
\* bytes, header_space() being the sum of the three widths, and leaves the N
\* body bytes as they were
C20_HeaderFrame ==
    [][(/\ hdr_op'.op = "populate_header"
        /\ <<hdr_op, heap, header_args>>' # <<hdr_op, heap, header_args>>
        /\ heap.state = "allocated"
        /\ heap.n >= 0)
          => /\ hdr_op'.status = "ok"
             /\ heap'.state = "allocated"
             /\ header_space = HeaderWidth
             /\ Len(heap'.bytes) = HeaderWidth + heap.n
             /\ heap.body = HeaderWidth
             /\ \A j \in (HeaderWidth + 1)..Len(heap.bytes) :
                    heap'.bytes[j] = heap.bytes[j]
             /\ SubSeq(heap'.bytes, 1, HeaderWidth) =
                    Image(header_args'[1]) \o Image(header_args'[2])
                        \o Image(header_args'[3])]_vars
C20_Witness ==
    /\ hdr_op.op = "populate_header"
    /\ hdr_op.status = "ok"
    /\ heap.n = MaxBody
    /\ \A k \in 1..heap.n : heap.bytes[heap.body + k] = MaxByte
    /\ header_args[3] = [i \in 1..sizeof_node_id_t |-> 255]

\* ---- properties of the counter replication ----
\* the process has returned from sync_with_members
Synced(p) == main_pc[p] \in {"sleep", "print", "done"}

\* C16: once sync_with_members has returned on p, every row of counter in p's
\* table holds the value its owner wrote before the owner's put, and these are
\* the values p reads and prints
C16_CountersReplicated ==
    \A p \in Members :
        Synced(p) =>
            /\ \A q \in Members :
                  /\ row_put[q] # <<>>
                  /\ table[p][q].counter = row_put[q].counter
                  /\ table[p][q].counter = 0
            /\ main_pc[p] = "done"
                  => printed[p] = [q \in Members |-> row_put[q].counter]
C16_Witness ==
    /\ \A p \in Members : main_pc[p] = "done"
    /\ \A p \in Members : printed[p] = [q \in Members |-> 0]

\* ---- properties of the receiver loop ----
\* what the receiver of p has recorded for row i so far
Recorded(p, i) == [k \in 0..(recv_j[p][i] - 1) |-> received_msgs[p][i][k]]
StrictlyIncreasing(f) ==
    \A a \in DOMAIN f, b \in DOMAIN f : a < b => f[a] < f[b]

\* C21: the receiver never stores beyond received_msgs[i]; what it has
\* recorded for a row is strictly increasing and within 1..num_msgs, hence
\* at most num_msgs entries; and when it has left the loop the last value
\* recorded for every row is num_msgs
C21_ReceiverInBounds ==
    \A p \in Members :
        /\ receiver_pc[p] \notin VectorUB
        /\ receiver_pc[p] # "none" =>
              \A i \in Members :
                  /\ recv_j[p][i] <= num_msgs
                  /\ DOMAIN Recorded(p, i) \subseteq DOMAIN received_msgs[p][i]
                  /\ StrictlyIncreasing(Recorded(p, i))
                  /\ \A k \in DOMAIN Recorded(p, i) :
                        Recorded(p, i)[k] \in 1..num_msgs
                  /\ receiver_pc[p] = "finished" =>
                        /\ recv_j[p][i] >= 1
                        /\ received_msgs[p][i][recv_j[p][i] - 1] = num_msgs
                        /\ last_received[p][i] = num_msgs
                        /\ received_msgs[p][i] \in ReceptionVectors(num_msgs)
C21_Witness ==
    \E p \in Members, q \in Members :
        /\ p # q
        /\ num_msgs = MaxMsgs
        /\ main_pc[p] = "joined"
        /\ recv_j[p][q] = num_msgs
        /\ recv_j[p][p] < num_msgs

\* ---- properties of print_partial_sums ----
\* C22: every index print_partial_sums uses on received_msgs[i], in
\* particular start_index - 1 and j - 1, lies within the vector
C22_SumsIndicesInBounds ==
    /\ sums_pc \notin VectorUB
    /\ \A k \in sums_access : k \in DOMAIN SumsVector
====
